---------------------------- MODULE Spec2Model ----------------------------
(* The css selector builder of src/src/05-objects-tasks.js: the Selector   *)
(* class (an array of {type, value} fragments guarded by validate), the    *)
(* cssSelectorBuilder facade and the object literal combine returns.       *)
(* Objects are kept by identity: a Selector instance is an index into      *)
(* `selectors`, a combine result an index into `combined`, and a reference  *)
(* is a record [cls, at].                                                   *)
EXTENDS Integers, Sequences, FiniteSets, TLC

VARIABLES
    selectors,  \* selectors[i]: the array this.selector of the i-th Selector instance
    combined,   \* combined[j]: the fields {sel1, sel2, combinator} of the j-th combine result
    accepted,   \* history: accepted[i] is the calls on instance i that returned normally, in call order
    last        \* the most recent call: what was called, on what, and what came back

vars == <<selectors, combined, accepted, last>>

-----------------------------------------------------------------------------
(* Bounds of the model *)

MaxSize == 3

Values == {"a"}
ChainValues == {"a", "b"}
Glyphs == {"+", "?"}

-----------------------------------------------------------------------------
(* Fragment kinds and the two error messages *)

Types == {"element", "id", "class", "attr", "pseudo-class", "pseudo-element"}

correctOrder == <<"element", "id", "class", "attr", "pseudo-class", "pseudo-element">>

NoError == "none"
DuplicateSelectorPartError ==
    "Element, id and pseudo-element should not occur more then one time inside the selector"
SelectorOrderError ==
    "Selector parts should be arranged in the following order: element, id, class, attribute, pseudo-class, pseudo-element"
TypeError == "TypeError: Cannot read properties of undefined (reading 'type')"

\* Array.prototype.indexOf, 0-based, -1 when absent
indexOf(arr, x) ==
    IF \E k \in 1..Len(arr) : arr[k] = x
    THEN (CHOOSE k \in 1..Len(arr) : arr[k] = x /\ \A m \in 1..(k - 1) : arr[m] # x) - 1
    ELSE -1

Fragment(type, value) == [type |-> type, value |-> value]

-----------------------------------------------------------------------------
(* References *)

RECURSIVE SumLen(_)
SumLen(sels) == IF sels = <<>> THEN 0 ELSE Len(Head(sels)) + SumLen(Tail(sels))

\* The number of heap cells in use: every stored fragment and every combine result
Size(sels, combs) == SumLen(sels) + Len(combs)

SelectorRef(i) == [cls |-> "Selector", at |-> i]
CombinedRef(j) == [cls |-> "Combined", at |-> j]
NullRef == [cls |-> "none", at |-> 0]

Refs(sels, combs) ==
    {SelectorRef(i) : i \in 1..Len(sels)} \cup {CombinedRef(j) : j \in 1..Len(combs)}

-----------------------------------------------------------------------------
(* class Selector *)

\* A constructor that drops its argument: this.selector = []
Selector_constructor_empty(selector) == <<>>

\* constructor(selector) { this.selector = [selector]; }
Selector_constructor(selector) == <<selector>>

\* validate with the uniqueness test looking at the last fragment only
validate_lastOnly(selector, type) ==
    IF /\ type \in {"element", "id", "pseudo-element"}
       /\ Len(selector) > 0
       /\ selector[Len(selector)].type = type
    THEN DuplicateSelectorPartError
    ELSE IF Len(selector) = 0
    THEN TypeError
    ELSE LET index == indexOf(correctOrder, selector[Len(selector)].type)
         IN  IF indexOf(correctOrder, type) < index
             THEN SelectorOrderError
             ELSE NoError

\* validate with 'id' left out of the kinds that must be unique
validate_idNotUnique(selector, type) ==
    IF /\ type \in {"element", "pseudo-element"}
       /\ \E k \in 1..Len(selector) : selector[k].type = type
    THEN DuplicateSelectorPartError
    ELSE IF Len(selector) = 0
    THEN TypeError
    ELSE LET index == indexOf(correctOrder, selector[Len(selector)].type)
         IN  IF indexOf(correctOrder, type) < index
             THEN SelectorOrderError
             ELSE NoError

\* validate with <= in place of < in the order test
validate_inclusive(selector, type) ==
    IF /\ type \in {"element", "id", "pseudo-element"}
       /\ \E k \in 1..Len(selector) : selector[k].type = type
    THEN DuplicateSelectorPartError
    ELSE IF Len(selector) = 0
    THEN TypeError
    ELSE LET index == indexOf(correctOrder, selector[Len(selector)].type)
         IN  IF indexOf(correctOrder, type) <= index
             THEN SelectorOrderError
             ELSE NoError

\* validate with the order test reading the first fragment, this.selector[0]
validate_orderFromFirst(selector, type) ==
    IF /\ type \in {"element", "id", "pseudo-element"}
       /\ \E k \in 1..Len(selector) : selector[k].type = type
    THEN DuplicateSelectorPartError
    ELSE IF Len(selector) = 0
    THEN TypeError
    ELSE LET index == indexOf(correctOrder, selector[1].type)
         IN  IF indexOf(correctOrder, type) < index
             THEN SelectorOrderError
             ELSE NoError

\* validate with the order test ahead of the uniqueness test
validate_orderFirst(selector, type) ==
    IF Len(selector) = 0
    THEN TypeError
    ELSE LET index == indexOf(correctOrder, selector[Len(selector)].type)
         IN  IF indexOf(correctOrder, type) < index
             THEN SelectorOrderError
             ELSE IF /\ type \in {"element", "id", "pseudo-element"}
                     /\ \E k \in 1..Len(selector) : selector[k].type = type
             THEN DuplicateSelectorPartError
             ELSE NoError

\* validate with 'pseudo-element' left out of the kinds that must be unique
validate_pseudoElementNotUnique(selector, type) ==
    IF /\ type \in {"element", "id"}
       /\ \E k \in 1..Len(selector) : selector[k].type = type
    THEN DuplicateSelectorPartError
    ELSE IF Len(selector) = 0
    THEN TypeError
    ELSE LET index == indexOf(correctOrder, selector[Len(selector)].type)
         IN  IF indexOf(correctOrder, type) < index
             THEN SelectorOrderError
             ELSE NoError

\* validate(type): the error it throws, or NoError when it returns
validate(selector, type) ==
    IF /\ type \in {"element", "id", "pseudo-element"}
       /\ \E k \in 1..Len(selector) : selector[k].type = type
    THEN DuplicateSelectorPartError
    ELSE IF Len(selector) = 0
    THEN TypeError
    ELSE LET index == indexOf(correctOrder, selector[Len(selector)].type)
         IN  IF indexOf(correctOrder, type) < index
             THEN SelectorOrderError
             ELSE NoError

\* The method body with push before validate: the fragment stays when validate throws
SelectorMethod_pushFirst(sels, i, type, value) ==
    LET err == validate(sels[i], type)
        pushed == [sels EXCEPT ![i] = Append(@, Fragment(type, value))]
    IN  IF err # NoError
        THEN [selectors |-> pushed, ret |-> NullRef, error |-> err]
        ELSE [selectors |-> pushed, ret |-> SelectorRef(i), error |-> NoError]

\* The method body returning a new Selector that holds the extended array
SelectorMethod_copy(sels, i, type, value) ==
    LET err == validate(sels[i], type)
    IN  IF err # NoError
        THEN [selectors |-> sels, ret |-> NullRef, error |-> err]
        ELSE [selectors |-> Append(sels, Append(sels[i], Fragment(type, value))),
              ret |-> SelectorRef(Len(sels) + 1),
              error |-> NoError]

\* The method body with unshift in place of push
SelectorMethod_unshift(sels, i, type, value) ==
    LET err == validate(sels[i], type)
    IN  IF err # NoError
        THEN [selectors |-> sels, ret |-> NullRef, error |-> err]
        ELSE [selectors |-> [sels EXCEPT ![i] = <<Fragment(type, value)>> \o @],
              ret |-> SelectorRef(i),
              error |-> NoError]

\* The body shared by element/id/class/attr/pseudoClass/pseudoElement:
\*   this.validate(type); this.selector.push({ type, value }); return this;
\* The result is the heap of Selector arrays after the call, the value
\* returned and the error thrown.
SelectorMethod(sels, i, type, value) ==
    LET err == validate(sels[i], type)
    IN  IF err # NoError
        THEN [selectors |-> sels, ret |-> NullRef, error |-> err]
        ELSE [selectors |-> [sels EXCEPT ![i] = Append(@, Fragment(type, value))],
              ret |-> SelectorRef(i),
              error |-> NoError]

\* The callback with a single colon for pseudo-element
stringifyStep_singleColon(acc, el) ==
    CASE el.type = "element" -> acc \o el.value
      [] el.type = "id" -> acc \o "#" \o el.value
      [] el.type = "class" -> acc \o "." \o el.value
      [] el.type = "attr" -> acc \o "[" \o el.value \o "]"
      [] el.type = "pseudo-class" -> acc \o ":" \o el.value
      [] el.type = "pseudo-element" -> acc \o ":" \o el.value
      [] OTHER -> acc

\* The callback of the reduce in stringify(): the switch on el.type
stringifyStep(acc, el) ==
    CASE el.type = "element" -> acc \o el.value
      [] el.type = "id" -> acc \o "#" \o el.value
      [] el.type = "class" -> acc \o "." \o el.value
      [] el.type = "attr" -> acc \o "[" \o el.value \o "]"
      [] el.type = "pseudo-class" -> acc \o ":" \o el.value
      [] el.type = "pseudo-element" -> acc \o "::" \o el.value
      [] OTHER -> acc

RECURSIVE reduce(_, _)
reduce(arr, acc) ==
    IF arr = <<>> THEN acc ELSE reduce(Tail(arr), stringifyStep(acc, Head(arr)))

\* stringify() consuming the array as it renders (shift() until empty)
Selector_stringify_call_drain(sels, i) ==
    [selectors |-> [sels EXCEPT ![i] = <<>>], str |-> reduce(sels[i], "")]

\* Selector.stringify(): the heap after the call and the string returned
Selector_stringify_call(sels, i) ==
    [selectors |-> sels, str |-> reduce(sels[i], "")]

-----------------------------------------------------------------------------
(* cssSelectorBuilder *)

\* The entry points of a facade that keeps one array for every Selector it
\* hands out: the new Selector's fragment also lands in the first one's array
BuilderMethod_sharedArray(sels, type, value) ==
    IF sels = <<>>
    THEN <<Selector_constructor(Fragment(type, value))>>
    ELSE Append([sels EXCEPT ![1] = Append(@, Fragment(type, value))],
                Selector_constructor(Fragment(type, value)))

\* The six entry points: return new Selector({ type, value })
BuilderMethod(sels, type, value) ==
    Append(sels, Selector_constructor(Fragment(type, value)))

\* combine that also records the combinator in the left operand's array
combineCall_intoLeft(sels, combs, sel1, combinator, sel2) ==
    [selectors |-> IF sel1.cls = "Selector"
                   THEN [sels EXCEPT ![sel1.at] = Append(@, Fragment("combinator", combinator))]
                   ELSE sels,
     combined |-> Append(combs, [sel1 |-> sel1, sel2 |-> sel2, combinator |-> combinator]),
     ret |-> CombinedRef(Len(combs) + 1)]

\* combine that keeps one result object and overwrites its fields on every call
combineCall_reuse(sels, combs, sel1, combinator, sel2) ==
    IF combs = <<>>
    THEN [selectors |-> sels,
          combined |-> <<[sel1 |-> sel1, sel2 |-> sel2, combinator |-> combinator]>>,
          ret |-> CombinedRef(1)]
    ELSE [selectors |-> sels,
          combined |-> [combs EXCEPT ![1] = [sel1 |-> sel1, sel2 |-> sel2,
                                             combinator |-> combinator]],
          ret |-> CombinedRef(1)]

\* combine that accepts the four css combinators only: for any other value no
\* object is created or returned
combineCall_canonicalOnly(sels, combs, sel1, combinator, sel2) ==
    IF combinator \in {" ", "+", "~", ">"}
    THEN [selectors |-> sels,
          combined |-> Append(combs, [sel1 |-> sel1, sel2 |-> sel2,
                                      combinator |-> combinator]),
          ret |-> CombinedRef(Len(combs) + 1)]
    ELSE [selectors |-> sels, combined |-> combs, ret |-> NullRef]

\* combine(sel1, combinator, sel2): the heaps after the call and the object returned
combineCall(sels, combs, sel1, combinator, sel2) ==
    [selectors |-> sels,
     combined |-> Append(combs, [sel1 |-> sel1, sel2 |-> sel2, combinator |-> combinator]),
     ret |-> CombinedRef(Len(combs) + 1)]

\* The template without the spaces around the combinator
combinedTemplate_noSpaces(left, combinator, right) ==
    left \o combinator \o right

\* The template literal of the combine result's stringify()
combinedTemplate(left, combinator, right) ==
    left \o " " \o combinator \o " " \o right

\* x.stringify() for a reference x, as a call: Selector.stringify for a Selector,
\* and for a combine result the template literal, which calls this.sel1.stringify()
\* and then this.sel2.stringify(). The result is the heap of Selector arrays after
\* the call and the string returned.
RECURSIVE stringifyCall(_, _, _)
stringifyCall(sels, combs, ref) ==
    IF ref.cls = "Selector"
    THEN Selector_stringify_call(sels, ref.at)
    ELSE LET l == stringifyCall(sels, combs, combs[ref.at].sel1)
             r == stringifyCall(l.selectors, combs, combs[ref.at].sel2)
         IN  [selectors |-> r.selectors,
              str |-> combinedTemplate(l.str, combs[ref.at].combinator, r.str)]

\* The string x.stringify() returns
stringify(sels, combs, ref) == stringifyCall(sels, combs, ref).str

-----------------------------------------------------------------------------
(* The state machine *)

Call(op, self, type, value, ret, str, error) ==
    [op |-> op, self |-> self, type |-> type, value |-> value,
     ret |-> ret, str |-> str, error |-> error]

Init ==
    /\ selectors = <<>>
    /\ combined = <<>>
    /\ accepted = <<>>
    /\ last = Call("none", NullRef, "", "", NullRef, "", NoError)

\* builder.<kind>(value)
Build(op, type, value) ==
    /\ Size(selectors, combined) < MaxSize
    /\ selectors' = BuilderMethod(selectors, type, value)
    /\ accepted' = Append(accepted, <<Fragment(type, value)>>)
    /\ last' = Call(op, NullRef, type, value, SelectorRef(Len(selectors) + 1), "", NoError)
    /\ UNCHANGED combined

Builder_element(value) == Build("builder.element", "element", value)
Builder_id(value) == Build("builder.id", "id", value)
Builder_class(value) == Build("builder.class", "class", value)
Builder_attr(value) == Build("builder.attr", "attr", value)
Builder_pseudoClass(value) == Build("builder.pseudoClass", "pseudo-class", value)
Builder_pseudoElement(value) == Build("builder.pseudoElement", "pseudo-element", value)

\* selector.<kind>(value) on the i-th Selector instance
Chain(op, i, type, value) ==
    LET r == SelectorMethod(selectors, i, type, value)
    IN  /\ i \in 1..Len(selectors)
        /\ r.error = NoError => Size(selectors, combined) < MaxSize
        /\ selectors' = r.selectors
        /\ accepted' = IF r.error = NoError
                       THEN [accepted EXCEPT ![i] = Append(@, Fragment(type, value))]
                       ELSE accepted
        /\ last' = Call(op, SelectorRef(i), type, value, r.ret, "", r.error)
        /\ UNCHANGED combined

Selector_element(i, value) == Chain("element", i, "element", value)
Selector_id(i, value) == Chain("id", i, "id", value)
Selector_class(i, value) == Chain("class", i, "class", value)
Selector_attr(i, value) == Chain("attr", i, "attr", value)
Selector_pseudoClass(i, value) == Chain("pseudoClass", i, "pseudo-class", value)
Selector_pseudoElement(i, value) == Chain("pseudoElement", i, "pseudo-element", value)

\* selector.stringify() on the i-th Selector instance
Selector_stringify(i) ==
    LET r == Selector_stringify_call(selectors, i)
    IN  /\ i \in 1..Len(selectors)
        /\ selectors' = r.selectors
        /\ last' = Call("stringify", SelectorRef(i), "", "", NullRef, r.str, NoError)
        /\ UNCHANGED <<combined, accepted>>

\* builder.combine(sel1, combinator, sel2)
Builder_combine(sel1, combinator, sel2) ==
    LET r == combineCall(selectors, combined, sel1, combinator, sel2)
    IN  /\ Size(selectors, combined) < MaxSize
        /\ sel1 \in Refs(selectors, combined)
        /\ sel2 \in Refs(selectors, combined)
        /\ selectors' = r.selectors
        /\ combined' = r.combined
        /\ last' = Call("builder.combine", NullRef, "", combinator, r.ret, "", NoError)
        /\ UNCHANGED accepted

\* stringify() on the j-th combine result
Combined_stringify(j) ==
    LET r == stringifyCall(selectors, combined, CombinedRef(j))
    IN  /\ j \in 1..Len(combined)
        /\ selectors' = r.selectors
        /\ last' = Call("stringify", CombinedRef(j), "", "", NullRef, r.str, NoError)
        /\ UNCHANGED <<combined, accepted>>

Next ==
    \/ \E v \in Values : Builder_element(v)
    \/ \E v \in Values : Builder_id(v)
    \/ \E v \in Values : Builder_class(v)
    \/ \E v \in Values : Builder_attr(v)
    \/ \E v \in Values : Builder_pseudoClass(v)
    \/ \E v \in Values : Builder_pseudoElement(v)
    \/ \E i \in 1..Len(selectors), v \in Values : Selector_element(i, v)
    \/ \E i \in 1..Len(selectors), v \in Values : Selector_id(i, v)
    \/ \E i \in 1..Len(selectors), v \in Values : Selector_class(i, v)
    \/ \E i \in 1..Len(selectors), v \in Values : Selector_attr(i, v)
    \/ \E i \in 1..Len(selectors), v \in Values : Selector_pseudoClass(i, v)
    \/ \E i \in 1..Len(selectors), v \in Values : Selector_pseudoElement(i, v)
    \/ \E i \in 1..Len(selectors) : Selector_stringify(i)
    \/ \E a \in Refs(selectors, combined), b \in Refs(selectors, combined), g \in Glyphs :
           Builder_combine(a, g, b)
    \/ \E j \in 1..Len(combined) : Combined_stringify(j)

Spec == Init /\ [][Next]_vars

\* One call chain: a single facade call, then appends and stringify on its Selector
NextChain ==
    \/ \E v \in ChainValues : selectors = <<>> /\ Builder_element(v)
    \/ \E v \in ChainValues : selectors = <<>> /\ Builder_id(v)
    \/ \E v \in ChainValues : selectors = <<>> /\ Builder_class(v)
    \/ \E v \in ChainValues : selectors = <<>> /\ Builder_attr(v)
    \/ \E v \in ChainValues : selectors = <<>> /\ Builder_pseudoClass(v)
    \/ \E v \in ChainValues : selectors = <<>> /\ Builder_pseudoElement(v)
    \/ \E i \in 1..Len(selectors), v \in ChainValues : Selector_element(i, v)
    \/ \E i \in 1..Len(selectors), v \in ChainValues : Selector_id(i, v)
    \/ \E i \in 1..Len(selectors), v \in ChainValues : Selector_class(i, v)
    \/ \E i \in 1..Len(selectors), v \in ChainValues : Selector_attr(i, v)
    \/ \E i \in 1..Len(selectors), v \in ChainValues : Selector_pseudoClass(i, v)
    \/ \E i \in 1..Len(selectors), v \in ChainValues : Selector_pseudoElement(i, v)
    \/ \E i \in 1..Len(selectors) : Selector_stringify(i)

SpecChain == Init /\ [][NextChain]_vars

-----------------------------------------------------------------------------
(* getJSON and fromJSON *)
(* A JavaScript primitive is a record [t, s, n]: its type, and its string   *)
(* or numeric payload. An object is a prototype and a sequence of own       *)
(* properties in creation order, each with its value and its three          *)
(* attributes; an array is its items. A JSON text is a sequence of tokens.  *)

MaxFields == 2

Keys == {"width", "height", "radius"}
Protos == {"Circle.prototype", "Rectangle.prototype"}

Number(n) == [t |-> "number", s |-> "", n |-> n]
String(s) == [t |-> "string", s |-> s, n |-> 0]
Boolean(s) == [t |-> "boolean", s |-> s, n |-> 0]
Null == [t |-> "null", s |-> "", n |-> 0]
Undefined == [t |-> "undefined", s |-> "", n |-> 0]
NaN == [t |-> "number", s |-> "NaN", n |-> 0]

\* The primitives JSON can write down, and the ones it cannot
JSONPrimitives == {Number(10), String("x"), Boolean("true"), Null}
Primitives == JSONPrimitives \cup {Undefined, NaN}

Property(key, value, enumerable, writable, configurable) ==
    [key |-> key, value |-> value, enumerable |-> enumerable,
     writable |-> writable, configurable |-> configurable]

\* A property as an object literal or CreateDataProperty makes it
DataProperty(key, value) == Property(key, value, TRUE, TRUE, TRUE)

Object(proto, own) == [t |-> "object", proto |-> proto, own |-> own]
Array(items) == [t |-> "array", proto |-> "Array.prototype", items |-> items]

\* Number::toString and its inverse on the numbers of the model
NumberToken(n) == CASE n = 0 -> "0" [] n = 1 -> "1" [] n = 2 -> "2" [] n = 3 -> "3"
                    [] n = 10 -> "10"
NumberTokens == {"0", "1", "2", "3", "10"}
TokenNumber(tok) == CHOOSE n \in {0, 1, 2, 3, 10} : NumberToken(n) = tok

\* A JSON string literal and its inverse on the strings of the model
Quote(s) == "\"" \o s \o "\""
Strings == Keys \cup {"x", "0", "1", "2", "length"}
IsQuoted(tok) == \E s \in Strings : Quote(s) = tok
Unquote(tok) == CHOOSE s \in Strings : Quote(s) = tok

\* JSON.stringify of a primitive that is an array item or a property value;
\* "" stands for undefined, which makes a property disappear
SerializeJSONProperty(p, inArray) ==
    CASE p.t = "undefined" -> IF inArray THEN "null" ELSE ""
      [] p.t = "null" -> "null"
      [] p.t = "boolean" -> p.s
      [] p.t = "string" -> Quote(p.s)
      [] p.t = "number" -> IF p.s = "NaN" THEN "null" ELSE NumberToken(p.n)

RECURSIVE SerializeJSONObject(_, _)
\* The members of an object, a comma before each but the first written
SerializeJSONObject(own, first) ==
    IF own = <<>> THEN <<>>
    ELSE LET p == Head(own)
             tok == SerializeJSONProperty(p.value, FALSE)
         IN  IF ~p.enumerable \/ tok = ""
             THEN SerializeJSONObject(Tail(own), first)
             ELSE (IF first THEN <<>> ELSE <<",">>) \o <<Quote(p.key), ":", tok>>
                      \o SerializeJSONObject(Tail(own), FALSE)

RECURSIVE SerializeJSONArray(_, _)
SerializeJSONArray(items, first) ==
    IF items = <<>> THEN <<>>
    ELSE (IF first THEN <<>> ELSE <<",">>) \o <<SerializeJSONProperty(Head(items), TRUE)>>
             \o SerializeJSONArray(Tail(items), FALSE)

\* JSON.stringify(obj) for an object or an array of primitives
JSONstringify(obj) ==
    IF obj.t = "array"
    THEN <<"[">> \o SerializeJSONArray(obj.items, TRUE) \o <<"]">>
    ELSE <<"{">> \o SerializeJSONObject(obj.own, TRUE) \o <<"}">>

\* function getJSON(obj) { return JSON.stringify(obj); }
getJSON(obj) == JSONstringify(obj)

SyntaxError == "SyntaxError"
Failed == [ok |-> FALSE, value |-> Null]
Parsed(value) == [ok |-> TRUE, value |-> value]

\* A JSON literal token to its primitive
ParsePrimitive(tok) ==
    IF tok = "null" THEN Parsed(Null)
    ELSE IF tok \in {"true", "false"} THEN Parsed(Boolean(tok))
    ELSE IF tok \in NumberTokens THEN Parsed(Number(TokenNumber(tok)))
    ELSE IF IsQuoted(tok) THEN Parsed(String(Unquote(tok)))
    ELSE Failed

\* CreateDataProperty: a new own property, or a new value for an existing one
PutProperty(own, key, value) ==
    IF \E k \in 1..Len(own) : own[k].key = key
    THEN [k \in 1..Len(own) |-> IF own[k].key = key THEN DataProperty(key, value) ELSE own[k]]
    ELSE Append(own, DataProperty(key, value))

RECURSIVE ParseMembers(_, _)
\* The tokens after '{' or ',': a member, then ',' and more members, or '}' and the end
ParseMembers(toks, own) ==
    IF Len(toks) < 4 THEN Failed
    ELSE LET value == ParsePrimitive(toks[3])
         IN  IF ~IsQuoted(toks[1]) \/ toks[2] # ":" \/ ~value.ok
             THEN Failed
             ELSE LET own2 == PutProperty(own, Unquote(toks[1]), value.value)
                  IN  IF toks[4] = "}"
                      THEN IF Len(toks) = 4 THEN Parsed(Object("Object.prototype", own2))
                                            ELSE Failed
                      ELSE IF toks[4] = ","
                      THEN ParseMembers(SubSeq(toks, 5, Len(toks)), own2)
                      ELSE Failed

RECURSIVE ParseElements(_, _)
\* The tokens after '[' or ',': an element, then ',' and more elements, or ']' and the end
ParseElements(toks, items) ==
    IF Len(toks) < 2 THEN Failed
    ELSE LET value == ParsePrimitive(toks[1])
         IN  IF ~value.ok
             THEN Failed
             ELSE IF toks[2] = "]"
             THEN IF Len(toks) = 2 THEN Parsed(Array(Append(items, value.value)))
                                   ELSE Failed
             ELSE IF toks[2] = ","
             THEN ParseElements(SubSeq(toks, 3, Len(toks)), Append(items, value.value))
             ELSE Failed

\* JSON.parse(json) for a text that opens an object or an array, the texts
\* the model hands it; Failed stands for the SyntaxError it throws
JSONparse(toks) ==
    IF toks = <<>> THEN Failed
    ELSE IF toks = <<"{", "}">> THEN Parsed(Object("Object.prototype", <<>>))
    ELSE IF toks = <<"[", "]">> THEN Parsed(Array(<<>>))
    ELSE IF Head(toks) = "{" THEN ParseMembers(Tail(toks), <<>>)
    ELSE IF Head(toks) = "[" THEN ParseElements(Tail(toks), <<>>)
    ELSE Failed

\* Object.getOwnPropertyDescriptors(obj): an object's own properties as they
\* are; an array's items under their indices, then its length
getOwnPropertyDescriptors(obj) ==
    IF obj.t = "array"
    THEN [k \in 1..Len(obj.items) |-> DataProperty(NumberToken(k - 1), obj.items[k])]
             \o <<Property("length", Number(Len(obj.items)), FALSE, TRUE, FALSE)>>
    ELSE obj.own

\* Object.create(proto, descriptors)
ObjectCreate(proto, descriptors) == Object(proto, descriptors)

\* fromJSON with the parsed object returned as it is
fromJSON_parsedOnly(proto, json) ==
    LET obj == JSONparse(json)
    IN  IF ~obj.ok
        THEN [ret |-> Null, error |-> SyntaxError]
        ELSE [ret |-> Object("Object.prototype", getOwnPropertyDescriptors(obj.value)),
              error |-> NoError]

\* function fromJSON(proto, json): the object returned, or the error thrown
fromJSON(proto, json) ==
    LET obj == JSONparse(json)
    IN  IF ~obj.ok
        THEN [ret |-> Null, error |-> SyntaxError]
        ELSE [ret |-> ObjectCreate(proto, getOwnPropertyDescriptors(obj.value)),
              error |-> NoError]

RECURSIVE PropertyLists(_, _)
\* The own-property lists of at most n properties with different keys and values from prims
PropertyLists(n, prims) ==
    IF n = 0 THEN {<<>>}
    ELSE LET shorter == PropertyLists(n - 1, prims)
         IN  shorter \cup
             {Append(own, DataProperty(key, value)) :
                  own \in {o \in shorter : Len(o) = n - 1},
                  key \in Keys, value \in prims}

DistinctKeys(own) == \A j, k \in 1..Len(own) : own[j].key = own[k].key => j = k

RECURSIVE ItemLists(_, _)
ItemLists(n, prims) ==
    IF n = 0 THEN {<<>>}
    ELSE LET shorter == ItemLists(n - 1, prims)
         IN  shorter \cup {Append(items, value) :
                               items \in {i \in shorter : Len(i) = n - 1}, value \in prims}

\* The objects and arrays of primitives handed to getJSON
PlainData ==
    {Object("Object.prototype", own) :
         own \in {o \in PropertyLists(MaxFields, Primitives) : DistinctKeys(o)}}
    \cup {Array(items) : items \in ItemLists(MaxFields, Primitives)}

JSONCall(op, obj, proto, json, ret, error) ==
    [op |-> op, obj |-> obj, proto |-> proto, json |-> json, ret |-> ret, error |-> error]

InitJSON ==
    /\ selectors = <<>>
    /\ combined = <<>>
    /\ accepted = <<>>
    /\ last = JSONCall("none", Null, "", <<>>, Null, NoError)

\* getJSON(obj)
GetJSON(obj) ==
    /\ last' = JSONCall("getJSON", obj, "", getJSON(obj), Null, NoError)
    /\ UNCHANGED <<selectors, combined, accepted>>

\* fromJSON(proto, json) on the text getJSON has just returned for last.obj
FromJSON(proto) ==
    LET r == fromJSON(proto, last.json)
    IN  /\ last.op = "getJSON"
        /\ last' = JSONCall("fromJSON", last.obj, proto, last.json, r.ret, r.error)
        /\ UNCHANGED <<selectors, combined, accepted>>

\* fromJSON(proto, json) on that text cut short by its last token
FromJSONTruncated(proto) ==
    LET json == SubSeq(last.json, 1, Len(last.json) - 1)
        r == fromJSON(proto, json)
    IN  /\ last.op = "getJSON"
        /\ last' = JSONCall("fromJSON(truncated)", last.obj, proto, json, r.ret, r.error)
        /\ UNCHANGED <<selectors, combined, accepted>>

NextJSON ==
    \/ \E obj \in PlainData : GetJSON(obj)
    \/ \E proto \in Protos : FromJSON(proto)
    \/ \E proto \in Protos : FromJSONTruncated(proto)

SpecJSON == InitJSON /\ [][NextJSON]_vars

-----------------------------------------------------------------------------
(* Vocabulary of the properties *)

AppendOps == {"element", "id", "class", "attr", "pseudoClass", "pseudoElement"}

IsAppend(call) == call.op \in AppendOps

UniqueKinds == {"element", "id", "pseudo-element"}

\* The rank of a fragment kind: element 0 < id 1 < class 2 < attribute 3 <
\* pseudo-class 4 < pseudo-element 5
Rank(type) ==
    CASE type = "element" -> 0
      [] type = "id" -> 1
      [] type = "class" -> 2
      [] type = "attr" -> 3
      [] type = "pseudo-class" -> 4
      [] type = "pseudo-element" -> 5

HasKind(selector, type) == \E k \in 1..Len(selector) : selector[k].type = type

LastOf(selector) == selector[Len(selector)]

\* The Selector array the last call was made on
Target == selectors[last.self.at]

OnSelector(call) == call.self.cls = "Selector"
OnCombined(call) == call.self.cls = "Combined"

-----------------------------------------------------------------------------
(* C1..C5: validation *)

\* C1: an append of kind element, id or pseudo-element on a Selector that
\* already holds a fragment of that kind, at any position, throws the
\* duplicate-part error.
C1_DuplicateAlwaysRejected ==
    [][\A i \in 1..Len(selectors) :
          (/\ IsAppend(last')
           /\ last'.self = SelectorRef(i)
           /\ last'.type \in UniqueKinds
           /\ HasKind(selectors[i], last'.type))
          => last'.error = DuplicateSelectorPartError]_vars

\* A duplicate was rejected although two other fragments lie between it and
\* the fragment it repeats.
C1_Witness ==
    /\ IsAppend(last)
    /\ last.error = DuplicateSelectorPartError
    /\ Len(Target) = 3
    /\ Target[1].type = last.type

\* C2 as stated: an append of lower rank than the last fragment throws the
\* order error, and an append of equal or higher rank does not throw it.
C2_Original ==
    [][\A i \in 1..Len(selectors) :
          (IsAppend(last') /\ last'.self = SelectorRef(i))
          => LET lastRank == Rank(LastOf(selectors[i]).type)
             IN  /\ Rank(last'.type) < lastRank => last'.error = SelectorOrderError
                 /\ Rank(last'.type) >= lastRank => last'.error # SelectorOrderError]_vars

\* C2 amended: an append of lower rank than the last fragment always throws:
\* the duplicate-part error when its kind is element, id or pseudo-element and
\* already present, the order error otherwise; an append of equal or higher
\* rank never throws the order error.
C2_LowerRankRejected ==
    [][\A i \in 1..Len(selectors) :
          (IsAppend(last') /\ last'.self = SelectorRef(i))
          => LET lastRank == Rank(LastOf(selectors[i]).type)
                 duplicate == /\ last'.type \in UniqueKinds
                              /\ HasKind(selectors[i], last'.type)
             IN  /\ Rank(last'.type) < lastRank =>
                        last'.error = IF duplicate THEN DuplicateSelectorPartError
                                                   ELSE SelectorOrderError
                 /\ Rank(last'.type) >= lastRank => last'.error # SelectorOrderError]_vars

\* An append broke both rules, lower rank and duplicate kind, and was
\* rejected with the duplicate-part error.
C2_Witness ==
    /\ IsAppend(last)
    /\ last.error = DuplicateSelectorPartError
    /\ Rank(last.type) < Rank(LastOf(Target).type)

\* C3: an append that throws the duplicate-part or the order error leaves
\* every Selector's array as it was.
C3_FailedAppendKeepsFragments ==
    [][(/\ IsAppend(last')
        /\ last'.error \in {DuplicateSelectorPartError, SelectorOrderError})
       => selectors' = selectors]_vars

\* An append was rejected with the order error on a Selector of two fragments.
C3_Witness ==
    /\ IsAppend(last)
    /\ last.error = SelectorOrderError
    /\ Len(Target) >= 2

\* C4: every Selector holds at most one element, one id and one pseudo-element.
C4_UniqueKindsAtMostOnce ==
    \A i \in 1..Len(selectors) : \A type \in UniqueKinds :
        Cardinality({k \in 1..Len(selectors[i]) : selectors[i][k].type = type}) <= 1

\* A Selector holds all three unique kinds and has just rejected a duplicate.
C4_Witness ==
    /\ IsAppend(last)
    /\ last.error = DuplicateSelectorPartError
    /\ \A type \in UniqueKinds : HasKind(Target, type)

\* C5: in every Selector, each fragment's rank is at least the rank of the
\* fragment before it.
C5_RanksNonDecreasing ==
    \A i \in 1..Len(selectors) : \A k \in 1..(Len(selectors[i]) - 1) :
        Rank(selectors[i][k + 1].type) >= Rank(selectors[i][k].type)

\* A Selector of three fragments of rising rank has just rejected an append
\* with the order error.
C5_Witness ==
    /\ IsAppend(last)
    /\ last.error = SelectorOrderError
    /\ Len(Target) = 3
    /\ Rank(Target[1].type) < Rank(Target[3].type)

-----------------------------------------------------------------------------
(* C6..C7: rendering *)

Prefix(type) ==
    CASE type = "element" -> ""
      [] type = "id" -> "#"
      [] type = "class" -> "."
      [] type = "attr" -> "["
      [] type = "pseudo-class" -> ":"
      [] type = "pseudo-element" -> "::"

Suffix(type) == IF type = "attr" THEN "]" ELSE ""

Punctuated(fragment) == Prefix(fragment.type) \o fragment.value \o Suffix(fragment.type)

RECURSIVE Joined(_)
Joined(calls) ==
    IF calls = <<>> THEN "" ELSE Punctuated(Head(calls)) \o Joined(Tail(calls))

\* C6: stringify() on a Selector returns the punctuated texts of the accepted
\* calls, the facade call first, joined in call order with nothing in between.
C6_StringifyJoinsAcceptedCalls ==
    (last.op = "stringify" /\ OnSelector(last))
    => last.str = Joined(accepted[last.self.at])

\* The shape of the scenario id('main').class('container').class('editable'):
\* id('a').class('b').class('a') rendered '#a.b.a'.
C6_Witness ==
    /\ last.op = "stringify"
    /\ OnSelector(last)
    /\ accepted[last.self.at] =
           <<Fragment("id", "a"), Fragment("class", "b"), Fragment("class", "a")>>
    /\ last.str = "#a.b.a"

\* C7: stringify() on combine(A, g, B) returns A.stringify(), a space, g, a
\* space, B.stringify(), whatever A and B are.
C7_CombinedStringify ==
    (last.op = "stringify" /\ OnCombined(last))
    => LET c == combined[last.self.at]
       IN  last.str = stringify(selectors, combined, c.sel1) \o " " \o c.combinator
                          \o " " \o stringify(selectors, combined, c.sel2)

\* stringify() was called on a combine result one of whose operands is a
\* combine result itself.
C7_Witness ==
    /\ last.op = "stringify"
    /\ OnCombined(last)
    /\ \/ combined[last.self.at].sel1.cls = "Combined"
       \/ combined[last.self.at].sel2.cls = "Combined"

-----------------------------------------------------------------------------
(* C8..C10: identity and frame *)

\* C8: an append that returns normally returns the Selector it was called on,
\* creates no Selector, and has changed that Selector's own array.
C8_AppendReturnsThis ==
    [][(IsAppend(last') /\ last'.error = NoError)
       => /\ last'.ret = last'.self
          /\ Len(selectors') = Len(selectors)
          /\ selectors'[last'.self.at] # selectors[last'.self.at]]_vars

\* Two appends were chained on the Selector a facade call returned.
C8_Witness ==
    /\ IsAppend(last)
    /\ last.error = NoError
    /\ last.ret = last.self
    /\ Len(Target) = 3

\* C9: stringify() on a Selector changes no Selector's array, and called
\* again right after itself on the same Selector it returns the same string.
C9_SelectorStringifyPure ==
    [][(last'.op = "stringify" /\ OnSelector(last'))
       => /\ selectors' = selectors
          /\ (last.op = "stringify" /\ last.self = last'.self) => last'.str = last.str]_vars

\* stringify() was called on a Selector of several fragments.
C9_Witness ==
    /\ last.op = "stringify"
    /\ OnSelector(last)
    /\ Len(Target) >= 2
    /\ last.str = reduce(Target, "")

\* C10: combine, and stringify() on a combine result, change no Selector's array.
C10_CombineKeepsOperands ==
    [][(\/ last'.op = "builder.combine"
        \/ last'.op = "stringify" /\ OnCombined(last'))
       => selectors' = selectors]_vars

\* stringify() was called on a combine result whose operands are two
\* different Selectors.
C10_Witness ==
    /\ last.op = "stringify"
    /\ OnCombined(last)
    /\ combined[last.self.at].sel1.cls = "Selector"
    /\ combined[last.self.at].sel2.cls = "Selector"
    /\ combined[last.self.at].sel1 # combined[last.self.at].sel2

-----------------------------------------------------------------------------
(* C11..C12: ownership and sharing *)

RECURSIVE Reaches(_, _, _)
\* The Selector instance i lies under the reference ref
Reaches(combs, ref, i) ==
    IF ref.cls = "Selector"
    THEN ref.at = i
    ELSE \/ Reaches(combs, combs[ref.at].sel1, i)
         \/ Reaches(combs, combs[ref.at].sel2, i)

C12_SelectorsIndependent ==
    [][/\ last'.op \in {"builder.element", "builder.id", "builder.class", "builder.attr",
                        "builder.pseudoClass", "builder.pseudoElement"}
          => /\ last'.ret = SelectorRef(Len(selectors) + 1)
             /\ Len(selectors') = Len(selectors) + 1
             /\ \A k \in 1..Len(selectors) : selectors'[k] = selectors[k]
       /\ IsAppend(last')
          => \A k \in 1..Len(selectors) :
                 k # last'.self.at
                 => /\ selectors'[k] = selectors[k]
                    /\ stringify(selectors', combined', SelectorRef(k))
                           = stringify(selectors, combined, SelectorRef(k))]_vars

\* Two Selectors from two facade calls exist and an append was accepted on
\* one of them.
C12_Witness ==
    /\ Len(selectors) >= 2
    /\ IsAppend(last)
    /\ last.error = NoError
    /\ Len(Target) = 2

-----------------------------------------------------------------------------
(* C13: the facade against the uniform validate-then-append algorithm *)

\* The validation algorithm as specified: the uniqueness check, then the order
\* check against the last fragment if there is one. The result is the error kind.
UniformValidate(fragments, type) ==
    IF type \in UniqueKinds /\ HasKind(fragments, type)
    THEN "duplicate"
    ELSE IF fragments # <<>> /\ Rank(type) < Rank(LastOf(fragments).type)
    THEN "order"
    ELSE "ok"

\* Validate, then append if both checks pass
UniformAppend(fragments, type, value) ==
    LET kind == UniformValidate(fragments, type)
    IN  [fragments |-> IF kind = "ok" THEN Append(fragments, Fragment(type, value))
                                      ELSE fragments,
         kind |-> kind]

\* The kind of what a call of the code threw
ErrorKind(error) ==
    CASE error = NoError -> "ok"
      [] error = DuplicateSelectorPartError -> "duplicate"
      [] error = SelectorOrderError -> "order"
      [] OTHER -> "other"

BuilderOps == {"builder.element", "builder.id", "builder.class", "builder.attr",
               "builder.pseudoClass", "builder.pseudoElement"}

\* C13: step by step, the code does what the uniform algorithm does from the
\* same fragments: a facade call yields what validate-then-append yields on
\* the empty sequence, and an append is accepted or rejected with the same
\* error kind and leaves the same fragments.
C13_FacadeMatchesUniform ==
    [][/\ last'.op \in BuilderOps
          => LET u == UniformAppend(<<>>, last'.type, last'.value)
             IN  /\ ErrorKind(last'.error) = u.kind
                 /\ selectors'[last'.ret.at] = u.fragments
       /\ IsAppend(last')
          => LET u == UniformAppend(selectors[last'.self.at], last'.type, last'.value)
             IN  /\ ErrorKind(last'.error) = u.kind
                 /\ selectors'[last'.self.at] = u.fragments]_vars

\* The fragment a facade call stored without validating was counted by the
\* uniqueness check of the very next append.
C13_Witness ==
    /\ IsAppend(last)
    /\ last.error = DuplicateSelectorPartError
    /\ Len(Target) = 1
    /\ accepted[last.self.at] = Target

-----------------------------------------------------------------------------
(* C14: getJSON and fromJSON round trip *)

\* The own fields of a plain object or array: name, value and attributes
OwnFields(v) ==
    IF v.t = "array"
    THEN [k \in 1..(Len(v.items) + 1) |->
              IF k <= Len(v.items)
              THEN [key |-> NumberToken(k - 1), value |-> v.items[k],
                    enumerable |-> TRUE, writable |-> TRUE, configurable |-> TRUE]
              ELSE [key |-> "length", value |-> Number(Len(v.items)),
                    enumerable |-> FALSE, writable |-> TRUE, configurable |-> FALSE]]
    ELSE v.own

ValuesOf(v) ==
    IF v.t = "array" THEN {v.items[k] : k \in 1..Len(v.items)}
                     ELSE {v.own[k].value : k \in 1..Len(v.own)}

\* fromJSON(p, getJSON(v)) returned a new object bound to p with v's own fields
RoundTrips ==
    /\ last.error = NoError
    /\ last.ret.t = "object"
    /\ last.ret.proto = last.proto
    /\ last.ret.own = OwnFields(last.obj)

\* C14 as stated: the round trip holds for every object or array of primitives.
C14_Original ==
    last.op = "fromJSON" => RoundTrips

\* C14 amended: the round trip holds for every object or array whose values
\* are primitives JSON can write down: finite numbers, strings, booleans, null.
C14_RoundTripOfJSONData ==
    (last.op = "fromJSON" /\ ValuesOf(last.obj) \subseteq JSONPrimitives) => RoundTrips

\* An object of two fields with different kinds of values came back bound to
\* the prototype given.
C14_Witness ==
    /\ last.op = "fromJSON"
    /\ last.obj.t = "object"
    /\ Len(last.obj.own) = 2
    /\ ValuesOf(last.obj) = {Number(10), String("x")}
    /\ last.ret.proto = "Circle.prototype"
    /\ last.ret.own = last.obj.own

-----------------------------------------------------------------------------
(* C15..C19 *)

\* C15: an append that breaks both rules, its kind already present and its
\* rank below the last fragment's, throws the duplicate-part error.
C15_DuplicateBeforeOrder ==
    [][\A i \in 1..Len(selectors) :
          (/\ IsAppend(last')
           /\ last'.self = SelectorRef(i)
           /\ last'.type \in UniqueKinds
           /\ HasKind(selectors[i], last'.type)
           /\ Rank(last'.type) < Rank(LastOf(selectors[i]).type))
          => /\ last'.error = DuplicateSelectorPartError
             /\ last'.error # SelectorOrderError]_vars

\* element was appended to a Selector that holds an element and ends in a
\* fragment of higher rank, and the duplicate-part error came back.
C15_Witness ==
    /\ last.op = "element"
    /\ last.error = DuplicateSelectorPartError
    /\ HasKind(Target, "element")
    /\ Rank(LastOf(Target).type) > Rank("element")

CanonicalGlyphs == {" ", "+", "~", ">"}

\* C16: combine throws nothing whatever the glyph is: it returns a new
\* combine result that holds the glyph as given, and that result's
\* stringify() writes the glyph as given between its operands.
C16_CombineAcceptsAnyGlyph ==
    last.op = "builder.combine"
    => /\ last.error = NoError
       /\ last.ret = CombinedRef(Len(combined))
       /\ Len(combined) >= 1
       /\ combined[last.ret.at].combinator = last.value
       /\ stringify(selectors, combined, last.ret)
              = stringify(selectors, combined, combined[last.ret.at].sel1)
                    \o " " \o last.value \o " "
                    \o stringify(selectors, combined, combined[last.ret.at].sel2)

\* combine was called with a glyph that is none of the four css combinators.
C16_Witness ==
    /\ last.op = "builder.combine"
    /\ last.value \notin CanonicalGlyphs
    /\ last.ret.cls = "Combined"
    /\ combined[last.ret.at].combinator = last.value

\* C17: once a Selector holds a pseudo-element, every append on it throws,
\* pseudoElement the duplicate-part error and the others the duplicate-part
\* or the order error, and its array never changes again.
C17_ClosedAfterPseudoElement ==
    [][\A i \in 1..Len(selectors) :
          HasKind(selectors[i], "pseudo-element")
          => /\ selectors'[i] = selectors[i]
             /\ (IsAppend(last') /\ last'.self = SelectorRef(i))
                => /\ last'.error \in {DuplicateSelectorPartError, SelectorOrderError}
                   /\ last'.type = "pseudo-element"
                      => last'.error = DuplicateSelectorPartError]_vars

\* An append of another kind was rejected, with the order error, by a
\* Selector that ends in a pseudo-element.
C17_Witness ==
    /\ IsAppend(last)
    /\ last.type # "pseudo-element"
    /\ last.error = SelectorOrderError
    /\ Len(Target) >= 2
    /\ LastOf(Target).type = "pseudo-element"

\* C18: every Selector holds at least one fragment, and each of its
\* fragments, the last one among them, has one of the six kinds.
C18_SelectorNeverEmpty ==
    \A i \in 1..Len(selectors) :
        /\ Len(selectors[i]) >= 1
        /\ \A k \in 1..Len(selectors[i]) : selectors[i][k].type \in Types

\* validate compared an append with the only fragment of a Selector, the
\* one the facade call stored.
C18_Witness ==
    /\ IsAppend(last)
    /\ last.error = SelectorOrderError
    /\ Len(Target) = 1
    /\ LastOf(Target).type \in Types

\* The kind each append method stands for
KindOf(op) ==
    CASE op = "element" -> "element"
      [] op = "id" -> "id"
      [] op = "class" -> "class"
      [] op = "attr" -> "attr"
      [] op = "pseudoClass" -> "pseudo-class"
      [] op = "pseudoElement" -> "pseudo-element"

\* C19: an append that returns normally leaves the Selector's array one
\* longer: the fragments it held, in place, then one fragment of the method's
\* kind with the text given.
C19_AppendAddsOneAtEnd ==
    [][(IsAppend(last') /\ last'.error = NoError)
       => LET before == selectors[last'.self.at]
              after == selectors'[last'.self.at]
          IN  /\ Len(after) = Len(before) + 1
              /\ \A k \in 1..Len(before) : after[k] = before[k]
              /\ after[Len(after)].type = KindOf(last'.op)
              /\ after[Len(after)].value = last'.value]_vars

\* A third fragment, with a text of its own, was appended after two others.
C19_Witness ==
    /\ IsAppend(last)
    /\ last.error = NoError
    /\ Len(Target) = 3
    /\ last.value = "b"
    /\ Target[1].value = "a"
    /\ Target[2].value = "a"
    /\ Target[3] = Fragment(KindOf(last.op), "b")

=============================================================================
